---------------------------- MODULE Spec2Model ----------------------------
(***************************************************************************)
(* Model of Parameter_viewer.py: the quote-aware CSV span splitter, the    *)
(* field codec, the header resolver, the numeric rewriter with its         *)
(* Decimal arithmetic, and the edit applier.                               *)
(*                                                                         *)
(* Text is a sequence of one-character strings.  Offsets are 0-based and   *)
(* spans are half-open <<start, end>>, as in the Python source.            *)
(* Integers of the program are unbounded (Python int) and Decimal          *)
(* coefficients reach 28 digits and more, so both are kept as sequences of *)
(* decimal digits, most significant digit first.                           *)
(***************************************************************************)
EXTENDS Integers, Sequences, FiniteSets, TLC

VARIABLES
    text,          \* the input buffer handed to edit_targets_in_csv_text
    mult_var,      \* the text of the multiplier entry (tk.StringVar)
    multiplier,    \* the parsed multiplier, a Decimal
    pc,            \* position of the run of on_drop / edit_targets_in_csv_text
    rec_spans,     \* record spans of text
    col_map,       \* target column name -> field index, in insertion order
    r_i,           \* index of the data record being processed
    c_i,           \* position in col_map.items() being processed
    edits,         \* collected (start, end, replacement) edits
    changed,       \* "cells changed" counter
    skipped_zero,  \* "zero cells skipped" counter
    out,           \* the rewritten text
    err,           \* the exception that ended the run, or NoError
    scan,          \* local state of a splitter loop (i, in_quotes, start, spans)
    mode,          \* which splitter is being stepped
    old_int,       \* argument of multiply_int_round_half_up
    result         \* its outcome

vars == <<text, mult_var, multiplier, pc, rec_spans, col_map, r_i, c_i, edits,
          changed, skipped_zero, out, err, scan, mode, old_int, result>>

----------------------------------------------------------------------------
(* Characters *)

QUOTE == "\""
COMMA == ","
LF    == "\n"
CR    == "\r"
SP    == " "
TAB   == "\t"

DigitChars == <<"0", "1", "2", "3", "4", "5", "6", "7", "8", "9">>

IsDigit(ch) == \E d \in 1..10 : DigitChars[d] = ch

DigitVal(ch) == (CHOOSE d \in 1..10 : DigitChars[d] = ch) - 1

\* the class \s of the re module, restricted to the characters of the model
IsSpace(ch) == ch \in {SP, TAB, LF, CR}

\* s[a:b] of Python: both offsets are clamped to the length
Slice(s, a, b) ==
    LET lo == IF a > Len(s) THEN Len(s) ELSE a
        hi == IF b > Len(s) THEN Len(s) ELSE b
    IN  SubSeq(s, lo + 1, hi)

Front(s) == SubSeq(s, 1, Len(s) - 1)

Last(s) == s[Len(s)]

Zeros(k) == [j \in 1..k |-> 0]

----------------------------------------------------------------------------
(* Unbounded naturals as digit sequences.  The arithmetic runs on limbs of *)
(* four decimal digits (base 10000), least significant limb first.         *)

Norm(a) ==
    IF \A k \in 1..Len(a) : a[k] = 0 THEN <<0>>
    ELSE LET nz    == {k \in 1..Len(a) : a[k] # 0}
             first == CHOOSE k \in nz : \A j \in nz : k <= j
         IN  SubSeq(a, first, Len(a))

IsZero(a) == \A k \in 1..Len(a) : a[k] = 0

Pow10(t) == CASE t = 0 -> 1 [] t = 1 -> 10 [] t = 2 -> 100 [] t = 3 -> 1000

ToLimbs(a) ==
    LET n == Len(a)
        D(p) == IF p >= 1 THEN a[p] ELSE 0
    IN  [j \in 1..((n + 3) \div 4) |->
            LET lo == n - 4 * (j - 1)
            IN  D(lo) + 10 * D(lo - 1) + 100 * D(lo - 2) + 1000 * D(lo - 3)]

FromLimbs(l) ==
    Norm([p \in 1..(4 * Len(l)) |->
            LET j == Len(l) - ((p - 1) \div 4)
                t == (3) - ((p - 1) % 4)
            IN  (l[j] \div Pow10(t)) % 10])

RECURSIVE AddC(_, _, _)
AddC(x, y, c) ==
    IF Len(x) = 0 /\ Len(y) = 0
    THEN IF c = 0 THEN <<>> ELSE <<c>>
    ELSE LET s == (IF Len(x) = 0 THEN 0 ELSE x[1])
                  + (IF Len(y) = 0 THEN 0 ELSE y[1]) + c
         IN  <<s % 10000>> \o AddC(IF Len(x) = 0 THEN x ELSE Tail(x),
                                      IF Len(y) = 0 THEN y ELSE Tail(y),
                                      s \div 10000)

RECURSIVE MulC(_, _, _)
MulC(x, d, c) ==
    IF Len(x) = 0
    THEN IF c = 0 THEN <<>> ELSE <<c>>
    ELSE LET s == x[1] * d + c
         IN  <<s % 10000>> \o MulC(Tail(x), d, s \div 10000)

RECURSIVE MulL(_, _)
MulL(x, y) ==
    IF Len(y) = 0 THEN <<>>
    ELSE AddC(MulC(x, y[1], 0), <<0>> \o MulL(x, Tail(y)), 0)

BigAdd(a, b) == FromLimbs(AddC(ToLimbs(a), ToLimbs(b), 0))

BigMul(a, b) == FromLimbs(MulL(ToLimbs(a), ToLimbs(b)))

BigLeq(a, b) ==
    LET x == Norm(a)
        y == Norm(b)
    IN  IF Len(x) # Len(y) THEN Len(x) < Len(y)
        ELSE \/ x = y
             \/ \E k \in 1..Len(x) : /\ x[k] < y[k]
                                     /\ \A j \in 1..(k - 1) : x[j] = y[j]

BigLt(a, b) == ~BigLeq(b, a)

RECURSIVE NatDigits(_)
NatDigits(n) == IF n < 10 THEN <<n>> ELSE Append(NatDigits(n \div 10), n % 10)

----------------------------------------------------------------------------
(* Python int and decimal.Decimal *)

\* a Python int: sign and magnitude; zero has neg = FALSE
BigInt(neg, mag) == [neg |-> neg /\ ~IsZero(mag), mag |-> Norm(mag)]

IntOf(n) == IF n < 0 THEN BigInt(TRUE, NatDigits(-n)) ELSE BigInt(FALSE, NatDigits(n))

\* a Decimal: sign, coefficient digits, exponent (value = coef * 10^exp)
Dec(sign, coef, exp) == [sign |-> sign, coef |-> Norm(coef), exp |-> exp]

\* Decimal(old_int)
DecimalOfInt(n) == Dec(IF n.neg THEN 1 ELSE 0, n.mag, 0)

\* precision of the default decimal context
DecimalPrec == 28

\* digits [keep+1 ..] of coef are dropped; TRUE iff the kept prefix is
\* incremented under ROUND_HALF_EVEN
RoundHalfEvenUp(coef, keep) ==
    LET first == coef[keep + 1]
        rest  == SubSeq(coef, keep + 2, Len(coef))
        restZero == \A k \in 1..Len(rest) : rest[k] = 0
        prevOdd == keep > 0 /\ coef[keep] % 2 = 1
    IN  \/ first > 5
        \/ first = 5 /\ ~restZero
        \/ first = 5 /\ restZero /\ prevOdd

\* Decimal._fix: round a result to the context precision (ROUND_HALF_EVEN)
DecimalFix(d) ==
    IF Len(d.coef) <= DecimalPrec THEN d
    ELSE LET kept == SubSeq(d.coef, 1, DecimalPrec)
             drop == Len(d.coef) - DecimalPrec
             up   == RoundHalfEvenUp(d.coef, DecimalPrec)
             c    == IF up THEN BigAdd(kept, <<1>>) ELSE kept
         IN  IF Len(c) > DecimalPrec
             THEN Dec(d.sign, Front(c), d.exp + drop + 1)
             ELSE Dec(d.sign, c, d.exp + drop)

\* Decimal.__mul__ under the default context
DecimalMul(a, b) ==
    LET sign == IF a.sign = b.sign THEN 0 ELSE 1
    IN  IF IsZero(a.coef) \/ IsZero(b.coef)
        THEN Dec(sign, <<0>>, a.exp + b.exp)
        ELSE DecimalFix(Dec(sign, BigMul(a.coef, b.coef), a.exp + b.exp))

\* val.quantize(Decimal("1"), rounding=ROUND_HALF_UP) raises InvalidOperation
\* when the result at exponent 0 needs more than DecimalPrec digits
QuantizeRaises(d) == ~IsZero(d.coef) /\ Len(d.coef) + d.exp > DecimalPrec

\* val.quantize(Decimal("1"), rounding=ROUND_HALF_UP) when it does not raise:
\* a Decimal of exponent 0
QuantizeHalfUp(d) ==
    IF IsZero(d.coef) THEN Dec(d.sign, <<0>>, 0)
    ELSE IF d.exp >= 0 THEN Dec(d.sign, d.coef \o Zeros(d.exp), 0)
    ELSE LET keep == Len(d.coef) + d.exp
         IN  IF keep < 0 THEN Dec(d.sign, <<0>>, 0)
             ELSE LET kept == IF keep = 0 THEN <<0>> ELSE SubSeq(d.coef, 1, keep)
                      up   == d.coef[keep + 1] >= 5
                  IN  Dec(d.sign, IF up THEN BigAdd(kept, <<1>>) ELSE kept, 0)

\* multiply_int_round_half_up raises (decimal.InvalidOperation from quantize)
MultiplyRaises(old, m) == QuantizeRaises(DecimalMul(DecimalOfInt(old), m))

\* multiply_int_round_half_up when it returns: int(rounded)
multiply_int_round_half_up(old, m) ==
    LET val     == DecimalMul(DecimalOfInt(old), m)
        rounded == QuantizeHalfUp(val)
    IN  BigInt(rounded.sign = 1, rounded.coef)

----------------------------------------------------------------------------
(* Strings, INT_RE, int() and str() *)

\* s.strip() and the longest whitespace prefix / suffix
LeadLen(s) ==
    IF \A k \in 1..Len(s) : IsSpace(s[k]) THEN Len(s)
    ELSE (CHOOSE k \in 1..Len(s) :
             ~IsSpace(s[k]) /\ \A j \in 1..(k - 1) : IsSpace(s[j])) - 1

TrailLen(s) ==
    IF \A k \in 1..Len(s) : IsSpace(s[k]) THEN Len(s)
    ELSE Len(s) - (CHOOSE k \in 1..Len(s) :
                      ~IsSpace(s[k]) /\ \A j \in (k + 1)..Len(s) : IsSpace(s[j]))

Strip(s) ==
    IF LeadLen(s) = Len(s) THEN <<>>
    ELSE SubSeq(s, LeadLen(s) + 1, Len(s) - TrailLen(s))

\* re.match(r"^(\s*)(.*?)(\s*)$", inner, flags=re.DOTALL): lead, core, trail
SplitWhitespace(inner) ==
    LET lead == SubSeq(inner, 1, LeadLen(inner))
        rest == SubSeq(inner, LeadLen(inner) + 1, Len(inner))
    IN  [lead  |-> lead,
         core  |-> SubSeq(rest, 1, Len(rest) - TrailLen(rest)),
         trail |-> SubSeq(rest, Len(rest) - TrailLen(rest) + 1, Len(rest))]

AllDigits(s) == Len(s) >= 1 /\ \A k \in 1..Len(s) : IsDigit(s[k])

\* INT_RE.fullmatch: ^[+-]?\d+$
INT_RE(core) ==
    /\ Len(core) >= 1
    /\ AllDigits(IF core[1] \in {"+", "-"} THEN Tail(core) ELSE core)

DigitsOf(s) == [k \in 1..Len(s) |-> DigitVal(s[k])]

\* int(core), for a core that matches INT_RE
IntOfString(core) ==
    IF core[1] \in {"+", "-"}
    THEN BigInt(core[1] = "-", DigitsOf(Tail(core)))
    ELSE BigInt(FALSE, DigitsOf(core))

\* str(n) of a Python int
StrOfInt(n) ==
    (IF n.neg THEN <<"-">> ELSE <<>>) \o [k \in 1..Len(n.mag) |-> DigitChars[n.mag[k] + 1]]

----------------------------------------------------------------------------
(* parse_multiplier *)

\* Decimal(s) accepts s: [sign] digits [. [digits]] or [sign] . digits.
\* (Decimal also reads exponents, underscores, Infinity and NaN; the entry
\* texts of the model use none of them.)
DecimalSyntax(s) ==
    /\ Len(s) >= 1
    /\ LET u   == IF s[1] \in {"+", "-"} THEN Tail(s) ELSE s
           dot == {k \in 1..Len(u) : u[k] = "."}
       IN  \/ AllDigits(u)
           \/ /\ Cardinality(dot) = 1
              /\ LET k == CHOOSE j \in dot : TRUE
                     ip == SubSeq(u, 1, k - 1)
                     fp == SubSeq(u, k + 1, Len(u))
                 IN  /\ Len(ip) + Len(fp) >= 1
                     /\ \A j \in 1..Len(ip) : IsDigit(ip[j])
                     /\ \A j \in 1..Len(fp) : IsDigit(fp[j])

\* Decimal(s) for s of that syntax: exact, no rounding to the context
DecimalOfString(s) ==
    LET sign == IF s[1] = "-" THEN 1 ELSE 0
        u    == IF s[1] \in {"+", "-"} THEN Tail(s) ELSE s
        dot  == {k \in 1..Len(u) : u[k] = "."}
    IN  IF dot = {} THEN Dec(sign, DigitsOf(u), 0)
        ELSE LET k == CHOOSE j \in dot : TRUE
             IN  Dec(sign,
                     DigitsOf(SubSeq(u, 1, k - 1) \o SubSeq(u, k + 1, Len(u))),
                     -(Len(u) - k))

NotANumber == "Multiplier must be a number."
OutOfRange == "Multiplier must be between 0.00 and 10.00."
NoError    == "none"

\* d < Decimal("0") or d > Decimal("10"), for d of exponent <= 0
MultiplierOutOfRange(d) ==
    \/ d.sign = 1 /\ ~IsZero(d.coef)
    \/ d.sign = 0 /\ BigLt(<<1, 0>> \o Zeros(-d.exp), d.coef)

\* the exception message of parse_multiplier(s), or NoError
ParseMultiplierError(s) ==
    IF ~DecimalSyntax(Strip(s)) THEN NotANumber
    ELSE IF MultiplierOutOfRange(DecimalOfString(Strip(s))) THEN OutOfRange
    ELSE NoError

\* the value parse_multiplier(s) returns
parse_multiplier(s) == DecimalOfString(Strip(s))

----------------------------------------------------------------------------
(* Field codec *)

RECURSIVE CollapseQuotes(_)
\* s.replace('""', '"')
CollapseQuotes(s) ==
    IF Len(s) < 2 THEN s
    ELSE IF s[1] = QUOTE /\ s[2] = QUOTE
         THEN <<QUOTE>> \o CollapseQuotes(SubSeq(s, 3, Len(s)))
         ELSE <<s[1]>> \o CollapseQuotes(Tail(s))

RECURSIVE DoubleQuotes(_)
\* s.replace('"', '""')
DoubleQuotes(s) ==
    IF Len(s) = 0 THEN s
    ELSE (IF s[1] = QUOTE THEN <<QUOTE, QUOTE>> ELSE <<s[1]>>) \o DoubleQuotes(Tail(s))

unquote_csv_field(raw) ==
    IF Len(raw) >= 2 /\ raw[1] = QUOTE /\ raw[Len(raw)] = QUOTE
    THEN [inner |-> CollapseQuotes(SubSeq(raw, 2, Len(raw) - 1)), was_quoted |-> TRUE]
    ELSE [inner |-> raw, was_quoted |-> FALSE]

\* the field quoted whatever it was
rewrap_csv_field_AlwaysQuoted(new_inner, was_quoted) ==
    <<QUOTE>> \o DoubleQuotes(new_inner) \o <<QUOTE>>

rewrap_csv_field(new_inner, was_quoted) ==
    IF was_quoted THEN <<QUOTE>> \o DoubleQuotes(new_inner) \o <<QUOTE>>
    ELSE new_inner

----------------------------------------------------------------------------
(* Quote-aware splitters.  A splitter loop has the local state             *)
(* [i, in_quotes, start, spans]; start is field_start in the field loop.   *)

ScanInit == [i |-> 0, in_quotes |-> FALSE, start |-> 0, spans |-> <<>>]

\* one iteration of the while loop of split_records_with_spans
RecordScanStep(t, s) ==
    LET ch == t[s.i + 1]
    IN  IF ch = QUOTE
        THEN IF s.in_quotes
             THEN IF s.i + 1 < Len(t) /\ t[s.i + 2] = QUOTE
                  THEN [s EXCEPT !.i = s.i + 2]
                  ELSE [s EXCEPT !.in_quotes = FALSE, !.i = s.i + 1]
             ELSE [s EXCEPT !.in_quotes = TRUE, !.i = s.i + 1]
        ELSE IF ~s.in_quotes /\ ch = LF
             THEN [s EXCEPT !.spans = Append(s.spans, <<s.start, s.i + 1>>),
                            !.start = s.i + 1,
                            !.i = s.i + 1]
             ELSE [s EXCEPT !.i = s.i + 1]

\* after the loop: a trailing record without terminator
RecordScanEnd(t, s) ==
    IF s.start < Len(t) THEN Append(s.spans, <<s.start, Len(t)>>) ELSE s.spans

RECURSIVE RecordScanRun(_, _)
RecordScanRun(t, s) ==
    IF s.i < Len(t) THEN RecordScanRun(t, RecordScanStep(t, s)) ELSE s

split_records_with_spans(t) == RecordScanEnd(t, RecordScanRun(t, ScanInit))

\* a comma taken for a boundary inside quotes too
FieldScanStep_IgnoreQuotes(t, s) ==
    LET ch == t[s.i + 1]
    IN  IF ch = QUOTE
        THEN IF s.in_quotes
             THEN IF s.i + 1 < Len(t) /\ t[s.i + 2] = QUOTE
                  THEN [s EXCEPT !.i = s.i + 2]
                  ELSE [s EXCEPT !.in_quotes = FALSE, !.i = s.i + 1]
             ELSE [s EXCEPT !.in_quotes = TRUE, !.i = s.i + 1]
        ELSE IF ch = COMMA
             THEN [s EXCEPT !.spans = Append(s.spans, <<s.start, s.i>>),
                            !.start = s.i + 1,
                            !.i = s.i + 1]
             ELSE [s EXCEPT !.i = s.i + 1]

\* one iteration of the while loop of split_fields_with_spans
FieldScanStep(t, s) ==
    LET ch == t[s.i + 1]
    IN  IF ch = QUOTE
        THEN IF s.in_quotes
             THEN IF s.i + 1 < Len(t) /\ t[s.i + 2] = QUOTE
                  THEN [s EXCEPT !.i = s.i + 2]
                  ELSE [s EXCEPT !.in_quotes = FALSE, !.i = s.i + 1]
             ELSE [s EXCEPT !.in_quotes = TRUE, !.i = s.i + 1]
        ELSE IF ch = COMMA /\ ~s.in_quotes
             THEN [s EXCEPT !.spans = Append(s.spans, <<s.start, s.i>>),
                            !.start = s.i + 1,
                            !.i = s.i + 1]
             ELSE [s EXCEPT !.i = s.i + 1]

\* the last field appended only when it is not empty, as the record loop does
FieldScanEnd_IfNonEmpty(t, s) ==
    IF s.start < Len(t) THEN Append(s.spans, <<s.start, Len(t)>>) ELSE s.spans

\* after the loop: the last field, always
FieldScanEnd(t, s) == Append(s.spans, <<s.start, Len(t)>>)

RECURSIVE FieldScanRun(_, _)
FieldScanRun(t, s) ==
    IF s.i < Len(t) THEN FieldScanRun(t, FieldScanStep(t, s)) ELSE s

split_fields_with_spans(t) == FieldScanEnd(t, FieldScanRun(t, ScanInit))

----------------------------------------------------------------------------
(* Header resolver *)

getSoul == <<"g", "e", "t", "S", "o", "u", "l">>
bonusSoul_single == <<"b", "o", "n", "u", "s", "S", "o", "u", "l", "_", "s", "i", "n", "g", "l", "e">>
bonusSoul_multi == <<"b", "o", "n", "u", "s", "S", "o", "u", "l", "_", "m", "u", "l", "t", "i">>

TARGET_COLUMNS == <<getSoul, bonusSoul_single, bonusSoul_multi>>

IsTargetColumn(name) == \E k \in 1..Len(TARGET_COLUMNS) : TARGET_COLUMNS[k] = name

\* the first index of a name kept
DictPut_KeepFirst(d, name, idx) ==
    IF \E k \in 1..Len(d) : d[k].name = name THEN d
    ELSE Append(d, [name |-> name, idx |-> idx])

\* name_to_index[name] = idx on a dict kept as its items() in insertion order
DictPut(d, name, idx) ==
    IF \E k \in 1..Len(d) : d[k].name = name
    THEN [k \in 1..Len(d) |->
             IF d[k].name = name THEN [name |-> name, idx |-> idx] ELSE d[k]]
    ELSE Append(d, [name |-> name, idx |-> idx])

RECURSIVE ColumnFold(_, _)
\* the dict after the first n fields of the header have been visited
ColumnFold(fields, n) ==
    IF n = 0 THEN <<>>
    ELSE LET d     == ColumnFold(fields, n - 1)
             inner == unquote_csv_field(fields[n]).inner
         IN  IF IsTargetColumn(inner) THEN DictPut(d, inner, n - 1) ELSE d

find_target_column_indices(header_line) ==
    LET spans  == split_fields_with_spans(header_line)
        fields == [k \in 1..Len(spans) |-> Slice(header_line, spans[k][1], spans[k][2])]
    IN  ColumnFold(fields, Len(fields))

\* s.rstrip("\r\n")
RStripNewlines(s) ==
    IF \A k \in 1..Len(s) : s[k] \in {CR, LF} THEN <<>>
    ELSE SubSeq(s, 1, CHOOSE k \in 1..Len(s) :
                         /\ s[k] \notin {CR, LF}
                         /\ \A j \in (k + 1)..Len(s) : s[j] \in {CR, LF})

HeaderLine(t, spans) == RStripNewlines(Slice(t, spans[1][1], spans[1][2]))

----------------------------------------------------------------------------
(* Numeric rewriter: one cell *)

EndsWith(s, suffix) ==
    /\ Len(s) >= Len(suffix)
    /\ SubSeq(s, Len(s) - Len(suffix) + 1, Len(s)) = suffix

\* record_body of record_with_nl
RecordBody(record_with_nl) ==
    IF EndsWith(record_with_nl, <<CR, LF>>)
    THEN SubSeq(record_with_nl, 1, Len(record_with_nl) - 2)
    ELSE IF EndsWith(record_with_nl, <<LF>>)
         THEN SubSeq(record_with_nl, 1, Len(record_with_nl) - 1)
         ELSE record_with_nl

\* the zero test left out
IsZeroInt_Never(n) == FALSE

\* old_val == 0
IsZeroInt(n) == IsZero(n.mag)

\* the record offset left out of the edit's start
GlobalFieldStart_NoRecordOffset(rs, fa) == fa

GlobalFieldStart(rs, fa) == rs + fa

GlobalFieldEnd(rs, fb) == rs + fb

\* what one pass of the inner loop does for record r (0-based) and the c-th
\* item of cmap: the way it leaves the iteration, and the edit it would add
ProcessCellOutcome(t, spans, cmap, m, r, c) ==
    LET rs          == spans[r + 1][1]
        record_body == RecordBody(Slice(t, rs, spans[r + 1][2]))
        field_spans == split_fields_with_spans(record_body)
        col_index   == cmap[c].idx
        none        == [start |-> 0, end |-> 0, rep |-> <<>>]
    IN  IF col_index >= Len(field_spans) THEN [kind |-> "ragged", edit |-> none]
        ELSE
        LET fa        == field_spans[col_index + 1][1]
            fb        == field_spans[col_index + 1][2]
            raw_field == Slice(record_body, fa, fb)
            dec       == unquote_csv_field(raw_field)
            parts     == SplitWhitespace(dec.inner)
        IN  IF ~INT_RE(parts.core) THEN [kind |-> "not_integer", edit |-> none]
            ELSE
            LET old_val == IntOfString(parts.core)
            IN  IF IsZeroInt(old_val) THEN [kind |-> "zero", edit |-> none]
                ELSE IF MultiplyRaises(old_val, m) THEN [kind |-> "raises", edit |-> none]
                ELSE
                LET new_val       == multiply_int_round_half_up(old_val, m)
                    new_inner     == parts.lead \o StrOfInt(new_val) \o parts.trail
                    new_raw_field == rewrap_csv_field(new_inner, dec.was_quoted)
                    gs            == GlobalFieldStart(rs, fa)
                    ge            == GlobalFieldEnd(rs, fb)
                    e             == [start |-> gs, end |-> ge, rep |-> new_raw_field]
                IN  IF new_raw_field # Slice(t, gs, ge)
                    THEN [kind |-> "edit", edit |-> e]
                    ELSE [kind |-> "same", edit |-> e]

----------------------------------------------------------------------------
(* Edit applier *)

RECURSIVE InsertDesc(_, _)
\* e put into a list sorted by descending start, after the items of equal start
InsertDesc(sorted, e) ==
    IF Len(sorted) = 0 THEN <<e>>
    ELSE IF sorted[1].start >= e.start
         THEN <<sorted[1]>> \o InsertDesc(Tail(sorted), e)
         ELSE <<e>> \o sorted

RECURSIVE SortEdits(_)
\* edits.sort(key=lambda x: x[0], reverse=True), a stable sort
SortEdits(es) ==
    IF Len(es) = 0 THEN <<>>
    ELSE InsertDesc(SortEdits(Front(es)), Last(es))

\* out[:start] + rep + out[end:]
Splice(o, e) == Slice(o, 0, e.start) \o e.rep \o Slice(o, e.end, Len(o))

RECURSIVE ApplyInOrder(_, _)
\* the for loop over the sorted edits
ApplyInOrder(o, es) ==
    IF Len(es) = 0 THEN o
    ELSE ApplyInOrder(Splice(o, es[1]), Tail(es))

\* the edits applied in the order they were collected
ApplyEdits_Unsorted(t, es) == ApplyInOrder(t, es)

ApplyEdits(t, es) == ApplyInOrder(t, SortEdits(es))

----------------------------------------------------------------------------
(* Inputs *)

MaxPieces == 3
MaxScanLen == 5
MaxInt == 12
MaxCoef == 100
MaxScale == 2

\* a 29-digit integer literal: one digit more than DecimalPrec
BigCell == <<"1">> \o [k \in 1..DecimalPrec |-> "0"]

Headers ==
    { getSoul \o <<COMMA>> \o bonusSoul_single,
      <<"a", COMMA>> \o getSoul \o <<COMMA, "b">>,
      getSoul \o <<COMMA>> \o getSoul,
      <<QUOTE>> \o getSoul \o <<QUOTE, COMMA>> \o bonusSoul_multi,
      <<"a", COMMA, "b">> }

Tokens ==
    { <<"5">>, <<"-", "5">>, <<"+", "0", "7">>, <<"0">>, <<"-", "0", "0">>,
      <<QUOTE, SP, "5", SP, QUOTE>>,
      <<SP>>, <<QUOTE>>, <<COMMA>>, <<LF>>, <<CR, LF>> }

RECURSIVE Concats(_)
\* the concatenations of at most n tokens
Concats(n) ==
    IF n = 0 THEN {<<>>}
    ELSE LET prev == Concats(n - 1)
         IN  prev \cup {b \o t : b \in prev, t \in Tokens}

\* bodies with one 29-digit cell
BigBodies == {a \o BigCell \o b : a \in Concats(1), b \in Concats(1)}

\* a header line ending in LF and a body of at most MaxPieces tokens
LongTexts == {h \o <<LF>> \o b : h \in Headers, b \in Concats(MaxPieces)}

\* the empty file, a header alone, and a header line ending in LF or CR LF
\* with a shorter body or a body with a 29-digit cell
ShortTexts ==
    {<<>>} \cup Headers
    \cup {h \o nl \o b : h \in Headers, nl \in {<<LF>>, <<CR, LF>>},
                         b \in Concats(MaxPieces - 1) \cup BigBodies}

Texts == LongTexts \cup ShortTexts

\* texts of the multiplier entry
CommonEntries == {<<"1", ".", "0", "0">>, <<"2", ".", "0", "0">>}

ValidEntries == CommonEntries \cup {<<"0">>, <<"0", ".", "5">>}

InvalidEntries == {<<"a", "b", "c">>, <<"1", "0", ".", "0", "1">>, <<"-", "1">>, <<>>}

ScanAlphabet == {QUOTE, COMMA, LF, CR, "a"}

ScanTexts == UNION {[1..n -> ScanAlphabet] : n \in 0..MaxScanLen}

\* 0.49999999999999999999999999999: 29 significant digits
LongMultiplier == Dec(0, <<4>> \o [k \in 1..DecimalPrec |-> 9], -(DecimalPrec + 1))

Multipliers ==
    {d \in {Dec(0, NatDigits(c), -e) : c \in 0..MaxCoef, e \in 0..MaxScale} :
        ~MultiplierOutOfRange(d)}
    \cup {LongMultiplier}

\* -MaxInt..MaxInt without 0, and the 28- and 29-digit powers of ten
IntInputs ==
    {IntOf(n) : n \in (-MaxInt..MaxInt) \ {0}}
    \cup {BigInt(FALSE, <<1>> \o Zeros(DecimalPrec - 1)), BigInt(FALSE, <<1>> \o Zeros(DecimalPrec))}

----------------------------------------------------------------------------
(* States and actions *)

NoDecimal == [sign |-> 0, coef |-> <<>>, exp |-> 0]
NoInt     == [neg |-> FALSE, mag |-> <<>>]
NoResult  == [raised |-> FALSE, value |-> NoInt]

NoRecords == "No records found."
NoTargets == "None of the target columns were found in the header."
InvalidOperation == "InvalidOperation"

EditIdle ==
    /\ rec_spans = <<>> /\ col_map = <<>> /\ r_i = 0 /\ c_i = 0
    /\ edits = <<>> /\ changed = 0 /\ skipped_zero = 0 /\ out = <<>> /\ err = NoError

ScanIdle == scan = ScanInit /\ mode = "none"

RoundIdle == old_int = NoInt /\ result = NoResult

\* a file is dropped on the window: its text, and the text of the entry
Init ==
    /\ \/ text \in LongTexts /\ mult_var \in CommonEntries
       \/ text \in ShortTexts /\ mult_var \in ValidEntries
       \/ text \in Headers /\ mult_var \in InvalidEntries
    /\ multiplier = NoDecimal
    /\ pc = "on_drop"
    /\ EditIdle /\ ScanIdle /\ RoundIdle

\* on_drop: parse_multiplier(mult_var.get()); a bad multiplier ends the drop
ParseMultiplier ==
    /\ pc = "on_drop"
    /\ IF ParseMultiplierError(mult_var) # NoError
       THEN /\ pc' = "rejected"
            /\ err' = ParseMultiplierError(mult_var)
            /\ UNCHANGED multiplier
       ELSE /\ pc' = "edit"
            /\ multiplier' = parse_multiplier(mult_var)
            /\ UNCHANGED err
    /\ UNCHANGED <<text, mult_var, rec_spans, col_map, r_i, c_i, edits, changed,
                   skipped_zero, out, scan, mode, old_int, result>>

\* edit_targets_in_csv_text up to the loop: the record spans, the column map,
\* the two fatal errors; the loop skips record 0 and starts at record 1
BeginEdit ==
    /\ pc = "edit"
    /\ LET spans == split_records_with_spans(text)
       IN  IF Len(spans) = 0
           THEN /\ pc' = "failed" /\ err' = NoRecords
                /\ rec_spans' = spans
                /\ UNCHANGED <<col_map, r_i, c_i>>
           ELSE LET cmap == find_target_column_indices(HeaderLine(text, spans))
                IN  /\ rec_spans' = spans
                    /\ col_map' = cmap
                    /\ IF Len(cmap) = 0
                       THEN pc' = "failed" /\ err' = NoTargets /\ UNCHANGED <<r_i, c_i>>
                       ELSE pc' = "loop" /\ r_i' = 1 /\ c_i' = 1 /\ UNCHANGED err
    /\ UNCHANGED <<text, mult_var, multiplier, edits, changed, skipped_zero, out,
                   scan, mode, old_int, result>>

\* one pass of the inner loop: the cell of record r_i under col_map item c_i
ProcessCell ==
    /\ pc = "loop"
    /\ r_i < Len(rec_spans)
    /\ LET o == ProcessCellOutcome(text, rec_spans, col_map, multiplier, r_i, c_i)
       IN  /\ edits' = IF o.kind = "edit" THEN Append(edits, o.edit) ELSE edits
           /\ changed' = IF o.kind = "edit" THEN changed + 1 ELSE changed
           /\ skipped_zero' = IF o.kind = "zero" THEN skipped_zero + 1 ELSE skipped_zero
           /\ IF o.kind = "raises"
              THEN pc' = "failed" /\ err' = InvalidOperation /\ UNCHANGED <<r_i, c_i>>
              ELSE /\ UNCHANGED <<pc, err>>
                   /\ IF c_i < Len(col_map)
                      THEN c_i' = c_i + 1 /\ UNCHANGED r_i
                      ELSE c_i' = 1 /\ r_i' = r_i + 1
    /\ UNCHANGED <<text, mult_var, multiplier, rec_spans, col_map, out, scan, mode,
                   old_int, result>>

\* after the loop: sort the edits, apply them, return
Finish ==
    /\ pc = "loop"
    /\ r_i >= Len(rec_spans)
    /\ out' = ApplyEdits(text, edits)
    /\ pc' = "done"
    /\ UNCHANGED <<text, mult_var, multiplier, rec_spans, col_map, r_i, c_i, edits,
                   changed, skipped_zero, err, scan, mode, old_int, result>>

Next == ParseMultiplier \/ BeginEdit \/ ProcessCell \/ Finish

Spec == Init /\ [][Next]_vars

----------------------------------------------------------------------------
(* The splitter loops, one iteration at a time *)

InitScan ==
    /\ text \in ScanTexts
    /\ mode \in {"records", "fields"}
    /\ scan = ScanInit
    /\ pc = "scan"
    /\ mult_var = <<>> /\ multiplier = NoDecimal
    /\ EditIdle /\ RoundIdle

RecordScan ==
    /\ pc = "scan" /\ mode = "records"
    /\ scan.i < Len(text)
    /\ scan' = RecordScanStep(text, scan)
    /\ UNCHANGED <<text, mult_var, multiplier, pc, rec_spans, col_map, r_i, c_i, edits,
                   changed, skipped_zero, out, err, mode, old_int, result>>

RecordScanFinish ==
    /\ pc = "scan" /\ mode = "records"
    /\ scan.i >= Len(text)
    /\ scan' = [scan EXCEPT !.spans = RecordScanEnd(text, scan)]
    /\ pc' = "scanned"
    /\ UNCHANGED <<text, mult_var, multiplier, rec_spans, col_map, r_i, c_i, edits,
                   changed, skipped_zero, out, err, mode, old_int, result>>

FieldScan ==
    /\ pc = "scan" /\ mode = "fields"
    /\ scan.i < Len(text)
    /\ scan' = FieldScanStep(text, scan)
    /\ UNCHANGED <<text, mult_var, multiplier, pc, rec_spans, col_map, r_i, c_i, edits,
                   changed, skipped_zero, out, err, mode, old_int, result>>

FieldScanFinish ==
    /\ pc = "scan" /\ mode = "fields"
    /\ scan.i >= Len(text)
    /\ scan' = [scan EXCEPT !.spans = FieldScanEnd(text, scan)]
    /\ pc' = "scanned"
    /\ UNCHANGED <<text, mult_var, multiplier, rec_spans, col_map, r_i, c_i, edits,
                   changed, skipped_zero, out, err, mode, old_int, result>>

NextScan == RecordScan \/ RecordScanFinish \/ FieldScan \/ FieldScanFinish

SpecScan == InitScan /\ [][NextScan]_vars

----------------------------------------------------------------------------
(* multiply_int_round_half_up on its own *)

InitRound ==
    /\ old_int \in IntInputs
    /\ multiplier \in Multipliers
    /\ result = NoResult
    /\ pc = "round"
    /\ text = <<>> /\ mult_var = <<>>
    /\ EditIdle /\ ScanIdle

Multiply ==
    /\ pc = "round"
    /\ result' = IF MultiplyRaises(old_int, multiplier)
                 THEN [raised |-> TRUE, value |-> NoInt]
                 ELSE [raised |-> FALSE,
                       value |-> multiply_int_round_half_up(old_int, multiplier)]
    /\ pc' = "rounded"
    /\ UNCHANGED <<text, mult_var, multiplier, rec_spans, col_map, r_i, c_i, edits,
                   changed, skipped_zero, out, err, scan, mode, old_int>>

NextRound == Multiply

SpecRound == InitRound /\ [][NextRound]_vars

----------------------------------------------------------------------------
(* Vocabulary of the properties *)

\* 0-based indices of the data records
DataRecords == 1..(Len(rec_spans) - 1)

RecordText(t, spans, r) == Slice(t, spans[r + 1][1], spans[r + 1][2])

\* the line terminator a record ends in
Terminator(rec) == SubSeq(rec, Len(RecordBody(rec)) + 1, Len(rec))

FieldSpansOf(rec) == split_fields_with_spans(RecordBody(rec))

\* the raw fields of a record
FieldsOf(rec) ==
    LET body == RecordBody(rec)
        sp   == split_fields_with_spans(body)
    IN  [k \in 1..Len(sp) |-> Slice(body, sp[k][1], sp[k][2])]

\* the decoded names of the header fields
HeaderNames ==
    LET fields == FieldsOf(HeaderLine(text, rec_spans))
    IN  [k \in 1..Len(fields) |-> unquote_csv_field(fields[k]).inner]

\* field index (0-based) of the right-most of the fields named name
LastIndexOf(names, name) ==
    LET at == {k \in 1..Len(names) : names[k] = name}
    IN  (CHOOSE k \in at : \A j \in at : j <= k) - 1

\* field indices whose header name is a target name
TargetIndices(names) == {k - 1 : k \in {j \in 1..Len(names) : IsTargetColumn(names[j])}}

\* those of them that carry the last occurrence of their name, and the others
LiveIndices(names) == {x \in TargetIndices(names) : LastIndexOf(names, names[x + 1]) = x}

ShadowedIndices(names) == TargetIndices(names) \ LiveIndices(names)

\* field x (0-based) of data record r exists
HasField(r, x) == x < Len(FieldSpansOf(RecordText(text, rec_spans, r)))

RawField(r, x) == FieldsOf(RecordText(text, rec_spans, r))[x + 1]

\* its span in offsets of the input text
FieldSpanInText(r, x) ==
    LET sp == FieldSpansOf(RecordText(text, rec_spans, r))[x + 1]
    IN  <<rec_spans[r + 1][1] + sp[1], rec_spans[r + 1][1] + sp[2]>>

\* the same field in the output, given that it has as many records
OutField(r, x) == FieldsOf(RecordText(out, split_records_with_spans(out), r))[x + 1]

\* the core of a raw field: decoded inner text without surrounding whitespace
CoreOf(raw) == Strip(unquote_csv_field(raw).inner)

\* an integer literal equal to zero: 0, 000, +0, -0, ...
ZeroLiteral(core) ==
    /\ Len(core) >= 1
    /\ LET u == IF core[1] \in {"+", "-"} THEN Tail(core) ELSE core
       IN  Len(u) >= 1 /\ \A k \in 1..Len(u) : u[k] = "0"

\* a plain decimal string: 0, or digits without leading zero after at most one '-'
PlainDecimal(core) ==
    \/ core = <<"0">>
    \/ /\ Len(core) >= 1
       /\ LET u == IF core[1] = "-" THEN Tail(core) ELSE core
          IN  AllDigits(u) /\ u[1] # "0"

QuoteWrapped(raw) == Len(raw) >= 2 /\ raw[1] = QUOTE /\ raw[Len(raw)] = QUOTE

\* the loop has run on these (record, field index) pairs
CellsVisited ==
    {p \in DataRecords \X {col_map[k].idx : k \in 1..Len(col_map)} :
        \/ pc = "done"
        \/ p[1] < r_i
        \/ p[1] = r_i /\ \E k \in 1..(c_i - 1) : col_map[k].idx = p[2]}

IsZeroCell(p) == HasField(p[1], p[2]) /\ ZeroLiteral(CoreOf(RawField(p[1], p[2])))

EditSpans == {<<edits[k].start, edits[k].end>> : k \in 1..Len(edits)}

InLoop == pc \in {"loop", "done"} \/ (pc = "failed" /\ err = InvalidOperation)

----------------------------------------------------------------------------
(* C1 *)

\* C1 (non-target preservation): when the call returns, the output splits
\* into as many records as the input; record 0 is the input's record 0; every
\* data record has its input terminator and its input number of fields, and
\* every field whose index is not in the column map is the input field.
NonTargetPreservation ==
    pc = "done" =>
        LET ospans == split_records_with_spans(out)
        IN  /\ Len(ospans) = Len(rec_spans)
            /\ RecordText(out, ospans, 0) = RecordText(text, rec_spans, 0)
            /\ \A r \in DataRecords :
                  LET rin  == RecordText(text, rec_spans, r)
                      rout == RecordText(out, ospans, r)
                  IN  /\ Terminator(rout) = Terminator(rin)
                      /\ Len(FieldsOf(rout)) = Len(FieldsOf(rin))
                      /\ \A k \in 1..Len(FieldsOf(rin)) :
                            (\A c \in 1..Len(col_map) : col_map[c].idx # k - 1)
                                => FieldsOf(rout)[k] = FieldsOf(rin)[k]

\* a run that rewrote a cell to another length next to a non-empty field of
\* another column
NonTargetPreservationWitness ==
    /\ pc = "done"
    /\ Len(out) # Len(text)
    /\ \E r \in DataRecords : \E x \in 0..2 :
          /\ HasField(r, x)
          /\ x \notin TargetIndices(HeaderNames)
          /\ RawField(r, x) # <<>>
          /\ \E y \in LiveIndices(HeaderNames) :
                HasField(r, y) /\ FieldSpanInText(r, y) \in EditSpans

----------------------------------------------------------------------------
(* C2 *)

\* C2 (zero invariance): the zero counter is the number of visited target cells
\* whose core is a zero literal; no edit covers such a cell, so the changed
\* counter (the number of edits) does not count it; and its raw bytes are in
\* the output unchanged.
ZeroInvariance ==
    InLoop =>
        /\ skipped_zero = Cardinality({p \in CellsVisited : IsZeroCell(p)})
        /\ changed = Len(edits)
        /\ \A p \in CellsVisited :
              IsZeroCell(p) => FieldSpanInText(p[1], p[2]) \notin EditSpans
        /\ pc = "done" =>
              \A p \in CellsVisited :
                  IsZeroCell(p) => OutField(p[1], p[2]) = RawField(p[1], p[2])

\* a run that skipped a zero written otherwise than 0 and rewrote another cell
ZeroInvarianceWitness ==
    /\ pc = "done"
    /\ changed >= 1
    /\ \E p \in CellsVisited : IsZeroCell(p) /\ RawField(p[1], p[2]) # <<"0">>

----------------------------------------------------------------------------
(* C4 *)

\* C4 (quote and whitespace fidelity): every replacement is quote-wrapped iff
\* the raw field it replaces is; decoded, it is the leading whitespace of the
\* original, a plain decimal string, and the trailing whitespace of the
\* original; and that string reads as the scaled value.
QuoteFidelity ==
    \A k \in 1..Len(edits) :
        LET raw == Slice(text, edits[k].start, edits[k].end)
            old == SplitWhitespace(unquote_csv_field(raw).inner)
            new == SplitWhitespace(unquote_csv_field(edits[k].rep).inner)
        IN  /\ QuoteWrapped(edits[k].rep) <=> QuoteWrapped(raw)
            /\ new.lead = old.lead
            /\ new.trail = old.trail
            /\ PlainDecimal(new.core)
            /\ IntOfString(new.core)
                   = multiply_int_round_half_up(IntOfString(old.core), multiplier)

\* a run that rewrote a quoted cell with whitespace on both sides of its digits
QuoteFidelityWitness ==
    /\ pc = "done"
    /\ \E k \in 1..Len(edits) :
          LET raw == Slice(text, edits[k].start, edits[k].end)
              old == SplitWhitespace(unquote_csv_field(raw).inner)
          IN  /\ QuoteWrapped(raw)
              /\ Len(old.lead) >= 1
              /\ Len(old.trail) >= 1
              /\ edits[k].rep # raw

----------------------------------------------------------------------------
(* C8 *)

RECURSIVE RebuildFrom(_, _, _)
\* one pass from left to right: copy the input from cursor up to the leftmost
\* remaining edit, put its replacement, go on behind its span
RebuildFrom(t, cursor, es) ==
    IF es = {} THEN Slice(t, cursor, Len(t))
    ELSE LET e == CHOOSE x \in es : \A y \in es : x.start <= y.start
         IN  Slice(t, cursor, e.start) \o e.rep \o RebuildFrom(t, e.end, es \ {e})

LinearRebuild(t, es) == RebuildFrom(t, 0, {es[k] : k \in 1..Len(es)})

\* C8 (edit list and application): the edits are pairwise non-overlapping;
\* each spans one field of one data record in offsets of the input; no field
\* has two edits; and the returned text is the left-to-right rebuild.
EditsApplyAsLinearRebuild ==
    InLoop =>
        /\ \A i, j \in 1..Len(edits) :
              i # j => \/ edits[i].end <= edits[j].start
                       \/ edits[j].end <= edits[i].start
        /\ \A i \in 1..Len(edits) :
              \E r \in DataRecords :
                  \E x \in 0..(Len(FieldSpansOf(RecordText(text, rec_spans, r))) - 1) :
                      FieldSpanInText(r, x) = <<edits[i].start, edits[i].end>>
        /\ Cardinality(EditSpans) = Len(edits)
        /\ pc = "done" => out = LinearRebuild(text, edits)

\* a run with two edits, the left one changing the length of its field
EditsApplyAsLinearRebuildWitness ==
    /\ pc = "done"
    /\ Len(edits) >= 2
    /\ \E i, j \in 1..Len(edits) :
          /\ edits[i].start < edits[j].start
          /\ Len(edits[i].rep) # edits[i].end - edits[i].start

----------------------------------------------------------------------------
(* C10 *)

\* C10 (duplicate header names): the column map has one entry per target name
\* that occurs in the header and no two entries share an index; the index of
\* an entry is that of the right-most header field of its name; a cell under
\* an earlier field of the same name has no edit, is in the output unchanged,
\* and is counted by neither counter.
DuplicateHeaderNames ==
    InLoop =>
        LET names    == HeaderNames
            live     == LiveIndices(names)
            shadowed == TargetIndices(names) \ live
        IN  /\ \A i, j \in 1..Len(col_map) :
                  i # j => /\ col_map[i].name # col_map[j].name
                           /\ col_map[i].idx # col_map[j].idx
            /\ {col_map[k].idx : k \in 1..Len(col_map)} = live
            /\ \A k \in 1..Len(col_map) :
                  /\ IsTargetColumn(col_map[k].name)
                  /\ col_map[k].idx = LastIndexOf(names, col_map[k].name)
            /\ \A r \in DataRecords : \A x \in shadowed :
                  HasField(r, x) =>
                      /\ FieldSpanInText(r, x) \notin EditSpans
                      /\ pc = "done" => OutField(r, x) = RawField(r, x)
            /\ pc = "done" =>
                  /\ skipped_zero
                         = Cardinality({p \in DataRecords \X live : IsZeroCell(p)})
                  /\ changed
                         <= Cardinality({p \in DataRecords \X live :
                                            HasField(p[1], p[2]) /\ ~IsZeroCell(p)})

\* a run on a header that names a column twice, with a row whose two cells
\* under that name are non-zero integers: only the right one was rewritten
DuplicateHeaderNamesWitness ==
    /\ pc = "done"
    /\ LET names == HeaderNames
       IN  \E r \in DataRecords : \E x \in ShadowedIndices(names) :
              /\ HasField(r, x)
              /\ INT_RE(CoreOf(RawField(r, x)))
              /\ ~ZeroLiteral(CoreOf(RawField(r, x)))
              /\ HasField(r, LastIndexOf(names, names[x + 1]))
              /\ FieldSpanInText(r, LastIndexOf(names, names[x + 1])) \in EditSpans

----------------------------------------------------------------------------
(* C5 *)

One == Dec(0, <<1, 0, 0>>, -2)

\* every target cell of every data record has a canonical integer core
AllTargetCellsCanonical ==
    \A p \in DataRecords \X LiveIndices(HeaderNames) :
        HasField(p[1], p[2]) => PlainDecimal(CoreOf(RawField(p[1], p[2])))

\* C5 (idempotence boundary): an edit is registered, and counted, only when the
\* re-encoded field differs from the raw field; and with multiplier 1.00 a text
\* whose header resolves and whose target cells are all canonical is returned
\* as it is, with no cell changed.
IdempotenceBoundary ==
    /\ changed = Len(edits)
    /\ \A k \in 1..Len(edits) :
          edits[k].rep # Slice(text, edits[k].start, edits[k].end)
    /\ (/\ pc \in {"done", "failed"}
        /\ Len(col_map) > 0
        /\ multiplier = One
        /\ AllTargetCellsCanonical)
           => (pc = "done" /\ out = text /\ changed = 0)

----------------------------------------------------------------------------
(* C6 *)

\* no decoded header field is a target column name
NoHeaderFieldIsTarget ==
    LET spans == split_records_with_spans(text)
        names == FieldsOf(RStripNewlines(RecordText(text, spans, 0)))
    IN  \A k \in 1..Len(names) : ~IsTargetColumn(unquote_csv_field(names[k]).inner)

\* C6 (error outcomes): the call fails iff the text has no record or no header
\* field names a target column; a failed call has collected no edit and
\* produced no text; every other call returns.
ErrorOutcomes ==
    pc \in {"done", "failed"} =>
        /\ (pc = "failed") <=> (\/ Len(split_records_with_spans(text)) = 0
                                \/ NoHeaderFieldIsTarget)
        /\ pc = "failed" => edits = <<>> /\ out = <<>>

----------------------------------------------------------------------------
(* C7 *)

\* the delimiter of the loop being stepped
Delim == IF mode = "records" THEN LF ELSE COMMA

\* the character at offset p lies outside quotes: an even number of quote
\* characters precedes it
OutsideAt(p) == Cardinality({j \in 1..p : text[j] = QUOTE}) % 2 = 0

\* offsets below upto of the delimiters that lie outside quotes
Boundaries(upto) == {p \in 0..(upto - 1) : text[p + 1] = Delim /\ OutsideAt(p)}

\* where the span closed by the delimiter at offset p ends
ClosedAt(p) == IF mode = "records" THEN p + 1 ELSE p

\* while a loop runs, in_quotes says whether the next character lies inside
\* quotes, and the spans closed so far are those of the delimiters met outside
\* quotes; when it has ended, a span starts at 0 and behind each of them
ScanAgreesWithQuotes ==
    /\ pc = "scan" =>
          /\ scan.in_quotes = ~OutsideAt(scan.i)
          /\ Len(scan.spans) = Cardinality(Boundaries(scan.i))
          /\ {scan.spans[k][2] : k \in 1..Len(scan.spans)}
                 = {ClosedAt(p) : p \in Boundaries(scan.i)}
    /\ pc = "scanned" =>
          {scan.spans[k][1] : k \in 1..Len(scan.spans)}
              = {x \in {0} \cup {p + 1 : p \in Boundaries(Len(text))} :
                    mode = "fields" \/ x < Len(text)}

\* one iteration: a span is closed iff the character is the delimiter and the
\* loop is outside quotes; a quote met inside quotes and followed by a quote is
\* consumed with it and leaves the loop inside quotes; any other quote toggles
\* the state; any other character leaves it
ScanStepRule ==
    (pc = "scan" /\ pc' = "scan") =>
        LET ch      == text[scan.i + 1]
            doubled == /\ ch = QUOTE /\ scan.in_quotes
                       /\ scan.i + 1 < Len(text) /\ text[scan.i + 2] = QUOTE
        IN  /\ (Len(scan'.spans) = Len(scan.spans) + 1)
                   <=> (ch = Delim /\ ~scan.in_quotes)
            /\ Len(scan'.spans) \in {Len(scan.spans), Len(scan.spans) + 1}
            /\ doubled => scan'.i = scan.i + 2 /\ scan'.in_quotes
            /\ (ch = QUOTE /\ ~doubled)
                   => scan'.i = scan.i + 1 /\ scan'.in_quotes = ~scan.in_quotes
            /\ ch # QUOTE
                   => scan'.i = scan.i + 1 /\ scan'.in_quotes = scan.in_quotes

\* C7 (quote-aware boundaries): in both loops a delimiter ends the current
\* span iff the loop is outside quotes at that character, the quote state
\* follows the toggle rule with the doubled-quote exception, and so no
\* delimiter inside an open quoted section starts a span.
QuoteAwareBoundaries == []ScanAgreesWithQuotes /\ [][ScanStepRule]_vars

\* a finished loop over a text with a delimiter inside quotes, a delimiter
\* outside quotes and a doubled quote inside quotes
QuoteAwareBoundariesWitness ==
    /\ pc = "scanned"
    /\ \E p \in 0..(Len(text) - 1) : text[p + 1] = Delim /\ ~OutsideAt(p)
    /\ Boundaries(Len(text)) # {}
    /\ \E p \in 0..(Len(text) - 2) :
          text[p + 1] = QUOTE /\ text[p + 2] = QUOTE /\ ~OutsideAt(p)

----------------------------------------------------------------------------
(* C9 *)

\* C9 as stated (empty input to the splitter): a text of zero characters
\* yields zero spans, from the record loop and from the field loop alike.
EmptyInputYieldsNoSpans ==
    (pc = "scanned" /\ Len(text) = 0) => Len(scan.spans) = 0

\* C9 as the code has it: a text of zero characters yields zero spans from the
\* record loop, and exactly one span, the empty span (0, 0), from the field loop.
EmptyInputSpans ==
    (pc = "scanned" /\ Len(text) = 0) =>
        /\ mode = "records" => scan.spans = <<>>
        /\ mode = "fields" => scan.spans = <<<<0, 0>>>>

\* the field loop has ended on the empty text
EmptyInputSpansWitness ==
    pc = "scanned" /\ Len(text) = 0 /\ mode = "fields" /\ Len(scan.spans) = 1

----------------------------------------------------------------------------
(* C3 *)

\* C3 (rounding law): multiply_int_round_half_up(v, m) returns, for every
\* non-zero v and every m in [0, 10], the integer nearest to the exact product
\* v * m, of the larger magnitude when the product lies half way:
\* 2|v|m - 1 < 2|r| <= 2|v|m + 1, on integers scaled by 10^-exp; and r has the
\* sign of v or is 0.
RoundingLaw ==
    pc = "rounded" =>
        /\ ~result.raised
        /\ LET k     == -multiplier.exp
               twoP  == MulC(ToLimbs(BigMul(old_int.mag, multiplier.coef)), 2, 0)
               twoR  == MulC(ToLimbs(result.value.mag \o Zeros(k)), 2, 0)
               unit  == ToLimbs(<<1>> \o Zeros(k))
           IN  /\ BigLeq(FromLimbs(twoR), FromLimbs(AddC(twoP, unit, 0)))
               /\ BigLt(FromLimbs(twoP), FromLimbs(AddC(twoR, unit, 0)))
        /\ result.value.neg => old_int.neg
        /\ ~IsZero(result.value.mag) => (result.value.neg <=> old_int.neg)

=============================================================================
